---- MODULE Spec2Model ----
(***************************************************************************)
(* Model of litReview.py: PaperFetcher, the rate-limited metadata client,  *)
(* the PDF resolver chain, the downloader and the recursive crawl.         *)
(*                                                                         *)
(* The program runs on one asyncio event loop.  A coroutine runs without   *)
(* interruption from one suspension point (an await that really waits) to  *)
(* the next, so every action below is one such run of one task.  The       *)
(* tasks created by asyncio.gather are queued back to back on the loop's   *)
(* ready queue and each runs up to its first suspension point before       *)
(* anything else that was queued later; their first runs touch only        *)
(* visited_papers, the semaphore and last_request_time, which the parent   *)
(* does not touch after creating them, so the parent's run and the first   *)
(* runs of its children are modelled as one action.                        *)
(*                                                                         *)
(* Time is kept relative: last_request_age is time.time() minus            *)
(* self.last_request_time, saturated at request_interval, and every        *)
(* sleeping task carries the seconds it still has to sleep.                *)
(***************************************************************************)
EXTENDS Integers, Sequences, FiniteSets, TLC

VARIABLES
    papers,            \* what the services answer for each paper id (fixed per run)
    depth0,            \* the depth argument of the crawl
    crawl,             \* position of fetch_connected_papers: "idle", "running", "returned"
    tasks,             \* the process_paper invocations, in creation order
    visited_papers,    \* self.visited_papers
    rate_limit,        \* free slots of self.rate_limit (Semaphore(3))
    waiters,           \* tasks suspended in Semaphore.acquire, FIFO
    last_request_age,  \* time since self.last_request_time, saturated
    min_gap,           \* least time seen between the starts of two requests
    files,             \* the output directory: path -> content
    faults_left,       \* failures the environment may still inject
    search,            \* the search_papers call that main() makes before the crawl
    papers_metadata    \* content of papers_metadata.json (None until written)

vars == <<papers, depth0, crawl, tasks, visited_papers, rate_limit, waiters,
          last_request_age, min_gap, files, faults_left, search,
          papers_metadata>>

None == "None"

\* ---------------------------------------------------------------- bounds
MaxDepth == 3
MaxFaults == 3
MaxCrawlFaults == 1

\* ------------------------------------------------------ program constants
max_concurrent == 3
request_interval == 2
default_retries == 3

Min(a, b) == IF a < b THEN a ELSE b

\* ------------------------------------------------------------ paper data
\* A file name, split as os.path.splitext splits it.
Name(stem, ext) == [stem |-> stem, ext |-> ext]
NoName == Name(<<>>, "")

\* One paper as the services describe it.  title is a sequence of
\* characters; cd is the filename of the Content-Disposition header that the
\* PDF host sends (NoName when it sends none); url_stem is the stem of the
\* PDF URL's path when that path ends in .pdf (empty otherwise).
Paper(refs, cites, oa, arxiv, doi, title, cd, stem) ==
    [references |-> refs, citations |-> cites, openAccessPdf |-> oa,
     ArXiv |-> arxiv, DOI |-> doi, title |-> title, cd |-> cd, url_stem |-> stem]

Leaf(title) == Paper(<<>>, <<>>, "url", FALSE, FALSE, title, NoName, <<>>)

\* root R lists A in references and in citations (spec section 8, scenario
\* B); A points back to R; A and B have titles that clean to the same name.
GraphShared ==
    [R |-> Paper(<<"A">>, <<"A", "B">>, "url", TRUE, TRUE, <<"r">>, NoName, <<>>),
     A |-> Paper(<<"R">>, <<>>, "url", FALSE, FALSE, <<"a", " ", "b">>, NoName, <<>>),
     B |-> Paper(<<>>, <<"A">>, "url", FALSE, FALSE, <<"a", "-", "b", "!">>, NoName, <<>>)]

\* C is two edges from R through A and three edges through B and D; E is
\* reachable only through C.
GraphDeep ==
    [R |-> Paper(<<"A">>, <<"B">>, "none", FALSE, FALSE, <<"r">>, NoName, <<>>),
     A |-> Paper(<<"C">>, <<>>, "none", FALSE, FALSE, <<"a">>, NoName, <<>>),
     B |-> Paper(<<"D">>, <<>>, "none", FALSE, FALSE, <<"b">>, NoName, <<>>),
     C |-> Paper(<<"E">>, <<>>, "none", FALSE, FALSE, <<"c">>, NoName, <<>>),
     D |-> Paper(<<>>, <<"C">>, "none", FALSE, FALSE, <<"d">>, NoName, <<>>),
     E |-> Paper(<<>>, <<>>, "none", FALSE, FALSE, <<"e">>, NoName, <<>>)]

\* four children: more callers than semaphore slots.  One reference has no
\* paperId.
GraphWide ==
    [R |-> Paper(<<"A", None, "B">>, <<"C", "D">>, "nourl", TRUE, TRUE, <<>>, NoName, <<>>),
     A |-> Leaf(<<"a">>),
     B |-> Paper(<<>>, <<>>, "url", FALSE, FALSE, <<"a">>, Name(<<"x">>, ""), <<>>),
     C |-> Paper(<<>>, <<>>, "url", FALSE, FALSE, <<"a">>, NoName,
                <<"l", "o", "n", "g", "l", "o", "n", "g", "l", "o", "n">>),
     D |-> Paper(<<>>, <<>>, "none", FALSE, TRUE, <<"a">>, NoName, <<>>)]

\* four children without openAccessPdf; A has an ArXiv id and no DOI
GraphBare ==
    [R |-> Paper(<<"A", "B">>, <<"C", "D">>, "none", FALSE, FALSE, <<"r">>, NoName, <<>>),
     A |-> Paper(<<>>, <<>>, "none", TRUE, FALSE, <<"a">>, NoName, <<>>),
     B |-> Paper(<<>>, <<>>, "none", FALSE, FALSE, <<"b">>, NoName, <<>>),
     C |-> Paper(<<>>, <<>>, "none", FALSE, FALSE, <<"c">>, NoName, <<>>),
     D |-> Paper(<<>>, <<>>, "none", FALSE, FALSE, <<"d">>, NoName, <<>>)]

\* one paper that cites itself
GraphSingle ==
    [R |-> Paper(<<"R">>, <<>>, "none", TRUE, TRUE, <<"r">>, NoName, <<>>)]

Scenario(g, d, f) == [graph |-> g, depth |-> d, faults |-> f, search |-> "off"]

\* the same, started with --search: search_papers runs before the crawl
SearchScenario(g, d, f) == [Scenario(g, d, f) EXCEPT !.search = "idle"]

\* The crawls explored: graph, depth argument, failures the environment may
\* inject.
Scenarios ==
    {Scenario(GraphShared, d, 0) : d \in -1..1}
    \cup {Scenario(GraphShared, 2, MaxCrawlFaults)}
    \cup {Scenario(GraphDeep, d, 0) : d \in 2..MaxDepth}
    \cup {Scenario(GraphBare, 1, MaxCrawlFaults)}
    \cup {Scenario(GraphWide, 1, 0)}
    \cup {Scenario(GraphSingle, d, MaxFaults) : d \in 0..1}
    \cup {SearchScenario(GraphSingle, 0, MaxFaults)}

\* The crawls whose termination is checked: a graph with cycles, a root
\* with more children than limiter slots, and a crawl started by a search.
LiveScenarios ==
    {Scenario(GraphShared, 2, MaxCrawlFaults),
     Scenario(GraphBare, 1, 0),
     SearchScenario(GraphSingle, 0, MaxFaults)}

\* ---------------------------------------------------------- pure helpers
\* clean_filename: drop every character that is not a word character,
\* whitespace or a hyphen, turn each run of hyphens and whitespace into one
\* underscore, keep the first 100 characters.
IsWord(c) == c \in {"a", "b", "c", "d", "e", "r", "_", "1", "2", "3"}
IsSep(c) == c \in {" ", "-"}

RECURSIVE Collapse(_, _)
Collapse(s, in_run) ==
    IF s = <<>> THEN <<>>
    ELSE IF IsSep(Head(s))
         THEN (IF in_run THEN <<>> ELSE <<"_">>) \o Collapse(Tail(s), TRUE)
         ELSE <<Head(s)>> \o Collapse(Tail(s), FALSE)

clean_filename(title) ==
    LET kept == SelectSeq(title, LAMBDA c : IsWord(c) \/ IsSep(c))
        clean == Collapse(kept, FALSE)
    IN SubSeq(clean, 1, Min(Len(clean), 100))

\* extract_filename_from_response, as a split (stem, extension) name
extract_filename_from_response(pid, p) ==
    IF p.cd # NoName THEN p.cd
    ELSE IF p.url_stem # <<>> /\ Len(p.url_stem) > 10
         THEN Name(p.url_stem, ".pdf")
    ELSE IF p.title # <<>>
         THEN Name(clean_filename(p.title), ".pdf")
    ELSE Name(<<pid>>, ".pdf")

Digit(k) == <<"1", "2", "3", "4", "5", "6", "7", "8", "9">>[k]

\* the while loop of download_pdf: base, base_1, base_2, ... until free
RECURSIVE FreePath(_, _, _)
FreePath(fs, name, counter) ==
    LET cand == IF counter = 0 THEN name
                ELSE Name(name.stem \o <<"_", Digit(counter)>>, name.ext)
    IN IF cand \in DOMAIN fs THEN FreePath(fs, name, counter + 1) ELSE cand

\* ------------------------------------------------------------ the world
\* The mutable state as one record, so that a run of a coroutine that calls
\* into other coroutines is a composition of functions on it.
World ==
    [tasks |-> tasks, visited_papers |-> visited_papers,
     rate_limit |-> rate_limit, waiters |-> waiters,
     last_request_age |-> last_request_age, min_gap |-> min_gap,
     files |-> files, search |-> search]

Finished(W, t) == W.tasks[t].pc \in {"skip", "done"}
Children(W, t) == {c \in 1..Len(W.tasks) : W.tasks[c].parent = t}

\* Bookkeeping for the order of completion: a task that returns in this run
\* notes the siblings passed to gather after it that had already returned
\* with records.
CompletionOrder(W) ==
    [t \in 1..Len(W.tasks) |->
        IF Finished(W, t) /\ (t > Len(tasks) \/ ~Finished(World, t))
        THEN [W.tasks[t] EXCEPT !.overtaken_by =
                 {c \in 1..Len(tasks) :
                     /\ c > t
                     /\ tasks[c].parent = W.tasks[t].parent
                     /\ Finished(World, c)
                     /\ tasks[c].results # <<>>}]
        ELSE W.tasks[t]]

Commit(W) ==
    /\ tasks' = CompletionOrder(W)
    /\ visited_papers' = W.visited_papers
    /\ rate_limit' = W.rate_limit
    /\ waiters' = W.waiters
    /\ last_request_age' = W.last_request_age
    /\ min_gap' = W.min_gap
    /\ files' = W.files
    /\ search' = W.search

\* One invocation of process_paper.  pc is the suspension point it waits at:
\*   "skip"      returned [] at the visited/depth check
\*   "acquire"   in Semaphore.acquire, queued
\*   "acquired"  handed a slot by release, not yet resumed
\*   "rl_sleep"  asleep in wait_for_rate_limit
\*   "request"   metadata GET in flight
\*   "backoff"   asleep after a 429 or after an exception
\*   "arxiv", "unpaywall", "core"   resolver probe in flight
\*   "dl_get"    PDF GET in flight
\*   "dl_open"   aiofiles.open pending, path already chosen
\*   "dl_write"  file open, read/write/close pending
\*   "gather"    waiting for its children
\*   "done"      returned
NewTask(pid, depth, parent) ==
    [paper_id |-> pid, depth |-> depth, parent |-> parent, pc |-> "skip",
     attempt |-> 0, remaining |-> 0, hist |-> <<>>, fetched |-> "no",
     pdf_url |-> None, probes |-> <<>>, downloaded |-> "no",
     filepath |-> NoName, saved_filename |-> NoName, results |-> <<>>,
     overtaken_by |-> {}]

\* ------------------------------------------------ fetch_paper_details
\* the GET of line 171 goes out; wait_for_rate_limit has just stamped
\* last_request_time
SendRequest(W, t) ==
    [W EXCEPT !.tasks[t].pc = "request",
              !.min_gap = Min(@, W.last_request_age),
              !.last_request_age = 0]

\* wait_for_rate_limit up to its sleep, or through to the GET
wait_for_rate_limit(W, t) ==
    IF W.last_request_age < request_interval
    THEN [W EXCEPT !.tasks[t].pc = "rl_sleep",
                   !.tasks[t].remaining = request_interval - W.last_request_age]
    ELSE SendRequest(W, t)

\* faulty variant: release forgets the waiters
Release_NoWake(W) ==
    IF W.waiters = <<>> THEN [W EXCEPT !.rate_limit = @ + 1] ELSE W

\* Semaphore.release: the first waiter gets the slot
\* (0 in waiters stands for the search_papers call)
Release(W) ==
    IF W.waiters = <<>>
    THEN [W EXCEPT !.rate_limit = @ + 1]
    ELSE IF Head(W.waiters) = 0
    THEN [W EXCEPT !.search.pc = "acquired", !.waiters = Tail(@)]
    ELSE [W EXCEPT !.tasks[Head(W.waiters)].pc = "acquired",
                   !.waiters = Tail(@)]

\* faulty variant: the call goes ahead without a free slot
fetch_paper_details_NoLimit(W, t) ==
    wait_for_rate_limit([W EXCEPT !.rate_limit = @ - 1], t)

\* async with self.rate_limit, then the first pass of the loop
fetch_paper_details(W, t) ==
    IF W.rate_limit > 0 /\ W.waiters = <<>>
    THEN wait_for_rate_limit([W EXCEPT !.rate_limit = @ - 1], t)
    ELSE [W EXCEPT !.tasks[t].pc = "acquire", !.waiters = Append(@, t)]

\* faulty variant: the id is never added to visited_papers
process_paper_NoMark(W, pid, depth, parent) ==
    LET t == Len(W.tasks) + 1
        W1 == [W EXCEPT !.tasks = Append(@, NewTask(pid, depth, parent))]
    IN IF pid \in W.visited_papers \/ depth < 0
       THEN W1
       ELSE fetch_paper_details([W1 EXCEPT !.tasks[t].fetched = "started"], t)

\* faulty variant: the depth is not looked at
process_paper_AnyDepth(W, pid, depth, parent) ==
    LET t == Len(W.tasks) + 1
        W1 == [W EXCEPT !.tasks = Append(@, NewTask(pid, depth, parent))]
    IN IF pid \in W.visited_papers
       THEN W1
       ELSE fetch_paper_details(
                [W1 EXCEPT !.visited_papers = @ \cup {pid},
                           !.tasks[t].fetched = "started"], t)

\* ------------------------------------------------------- process_paper
\* lines 194-198: the check, the mark and the call of fetch_paper_details
process_paper(W, pid, depth, parent) ==
    LET t == Len(W.tasks) + 1
        W1 == [W EXCEPT !.tasks = Append(@, NewTask(pid, depth, parent))]
    IN IF pid \in W.visited_papers \/ depth < 0
       THEN W1
       ELSE fetch_paper_details(
                [W1 EXCEPT !.visited_papers = @ \cup {pid},
                           !.tasks[t].fetched = "started"], t)

\* the tasks of line 229, each run to its first suspension point, in order
RECURSIVE StartChildren(_, _, _, _)
StartChildren(W, ids, depth, parent) ==
    IF ids = <<>> THEN W
    ELSE StartChildren(process_paper(W, Head(ids), depth, parent),
                       Tail(ids), depth, parent)

\* lines 217-221
connected_papers(p) == p.references \o p.citations

\* faulty variant: a node whose download failed returns at once
AfterDownload_FailStops(W, t, ok) ==
    LET pid == W.tasks[t].paper_id
        rec == [id |-> pid, filename |-> W.tasks[t].saved_filename]
        W1 == [W EXCEPT !.tasks[t].downloaded = IF ok THEN "ok" ELSE "failed",
                        !.tasks[t].results = IF ok THEN <<rec>> ELSE <<>>]
        ids == SelectSeq(connected_papers(papers[pid]), LAMBDA c : c # None)
    IN IF ids = <<>> \/ ~ok
       THEN [W1 EXCEPT !.tasks[t].pc = "done"]
       ELSE StartChildren([W1 EXCEPT !.tasks[t].pc = "gather"],
                          ids, W.tasks[t].depth - 1, t)

\* faulty variant: the record is appended whatever download_pdf returned
AfterDownload_AlwaysRecord(W, t, ok) ==
    LET pid == W.tasks[t].paper_id
        rec == [id |-> pid, filename |-> W.tasks[t].saved_filename]
        W1 == [W EXCEPT !.tasks[t].downloaded = IF ok THEN "ok" ELSE "failed",
                        !.tasks[t].results = <<rec>>]
        ids == SelectSeq(connected_papers(papers[pid]), LAMBDA c : c # None)
    IN IF ids = <<>>
       THEN [W1 EXCEPT !.tasks[t].pc = "done"]
       ELSE StartChildren([W1 EXCEPT !.tasks[t].pc = "gather"],
                          ids, W.tasks[t].depth - 1, t)

\* lines 205-236, from the return of download_pdf on
AfterDownload(W, t, ok) ==
    LET pid == W.tasks[t].paper_id
        rec == [id |-> pid, filename |-> W.tasks[t].saved_filename]
        W1 == [W EXCEPT !.tasks[t].downloaded = IF ok THEN "ok" ELSE "failed",
                        !.tasks[t].results = IF ok THEN <<rec>> ELSE <<>>]
        ids == SelectSeq(connected_papers(papers[pid]), LAMBDA c : c # None)
    IN IF ids = <<>>
       THEN [W1 EXCEPT !.tasks[t].pc = "done"]
       ELSE StartChildren([W1 EXCEPT !.tasks[t].pc = "gather"],
                          ids, W.tasks[t].depth - 1, t)

\* ----------------------------------------------- try_alternative_sources
\* try_alternative_sources returns url (None: nothing found or an exception)
ResolverReturn(W, t, url) ==
    IF url = None
    THEN AfterDownload(W, t, FALSE)
    ELSE [W EXCEPT !.tasks[t].pdf_url = url, !.tasks[t].pc = "dl_get"]

\* faulty variant: CORE is asked whether or not there is a DOI
CoreStep_NoDoiCheck(W, t) ==
    [W EXCEPT !.tasks[t].pc = "core", !.tasks[t].probes = Append(@, "core")]

\* lines 95-105
CoreStep(W, t) ==
    IF papers[W.tasks[t].paper_id].DOI
    THEN [W EXCEPT !.tasks[t].pc = "core", !.tasks[t].probes = Append(@, "core")]
    ELSE ResolverReturn(W, t, None)

\* lines 85-93
UnpaywallStep(W, t) ==
    IF papers[W.tasks[t].paper_id].DOI
    THEN [W EXCEPT !.tasks[t].pc = "unpaywall",
                   !.tasks[t].probes = Append(@, "unpaywall")]
    ELSE CoreStep(W, t)

\* lines 76-83
try_alternative_sources(W, t) ==
    IF papers[W.tasks[t].paper_id].ArXiv
    THEN [W EXCEPT !.tasks[t].pc = "arxiv", !.tasks[t].probes = Append(@, "arxiv")]
    ELSE UnpaywallStep(W, t)

\* faulty variant: the providers are asked before openAccessPdf is looked at
download_pdf_ProbeFirst(W, t) ==
    try_alternative_sources([W EXCEPT !.tasks[t].downloaded = "started"], t)

\* faulty variant: the download takes a limiter slot
download_pdf_Limited(W, t) ==
    LET W1 == [W EXCEPT !.tasks[t].downloaded = "started", !.rate_limit = @ - 1]
    IN IF papers[W.tasks[t].paper_id].openAccessPdf = "url"
       THEN [W1 EXCEPT !.tasks[t].pdf_url = "openAccessPdf",
                       !.tasks[t].pc = "dl_get"]
       ELSE try_alternative_sources(W1, t)

\* --------------------------------------------------------- download_pdf
\* lines 116-133
download_pdf(W, t) ==
    LET W1 == [W EXCEPT !.tasks[t].downloaded = "started"]
    IN IF papers[W.tasks[t].paper_id].openAccessPdf = "url"
       THEN [W1 EXCEPT !.tasks[t].pdf_url = "openAccessPdf",
                       !.tasks[t].pc = "dl_get"]
       ELSE try_alternative_sources(W1, t)

\* faulty variant: the slot is kept when the fetch returns None
ReturnFromFetch_Leak(W, t, data) ==
    IF data
    THEN download_pdf([Release(W) EXCEPT !.tasks[t].fetched = "data"], t)
    ELSE [W EXCEPT !.tasks[t].fetched = "None", !.tasks[t].pc = "done"]

\* fetch_paper_details returns (data or None): the semaphore is released and
\* process_paper goes on from line 200
ReturnFromFetch(W, t, data) ==
    LET W1 == Release(W)
    IN IF data
       THEN download_pdf([W1 EXCEPT !.tasks[t].fetched = "data"], t)
       ELSE [W1 EXCEPT !.tasks[t].fetched = "None", !.tasks[t].pc = "done"]

\* faulty variant: range(retries + 1)
FetchAttempt_OneMore(W, t) ==
    IF W.tasks[t].attempt <= default_retries
    THEN wait_for_rate_limit(W, t)
    ELSE ReturnFromFetch(W, t, FALSE)

\* top of the for loop: one more attempt, or the return None of line 190
FetchAttempt(W, t) ==
    IF W.tasks[t].attempt < default_retries
    THEN wait_for_rate_limit(W, t)
    ELSE ReturnFromFetch(W, t, FALSE)

\* -------------------------------------------------------- search_papers
\* the GET of line 254 goes out
SearchSend(W) ==
    [W EXCEPT !.search.pc = "request",
              !.min_gap = Min(@, W.last_request_age),
              !.last_request_age = 0]

\* line 252
SearchWaitForRateLimit(W) ==
    IF W.last_request_age < request_interval
    THEN [W EXCEPT !.search.pc = "rl_sleep",
                   !.search.remaining = request_interval - W.last_request_age]
    ELSE SearchSend(W)

\* lines 250-252: one pass of the loop, from the acquire on
SearchAttempt(W) ==
    IF W.rate_limit > 0 /\ W.waiters = <<>>
    THEN SearchWaitForRateLimit([W EXCEPT !.rate_limit = @ - 1])
    ELSE [W EXCEPT !.search.pc = "acquire", !.waiters = Append(@, 0)]

\* a return inside async with: the slot is released
SearchReturn(W, result) == [Release(W) EXCEPT !.search.pc = result]

\* faulty variant: the delay is never doubled
SearchBackoff_NoDouble(W, doubles) ==
    [W EXCEPT !.search.pc = "backoff",
              !.search.remaining = W.search.retry_delay,
              !.search.waits = Append(@, W.search.retry_delay),
              !.search.double = FALSE]

\* lines 261 and 269: asyncio.sleep(retry_delay)
SearchBackoff(W, doubles) ==
    [W EXCEPT !.search.pc = "backoff",
              !.search.remaining = W.search.retry_delay,
              !.search.waits = Append(@, W.search.retry_delay),
              !.search.double = doubles]

\* ================================================================ actions
Start(scenarios) ==
    /\ \E sc \in scenarios :
          /\ papers = sc.graph
          /\ depth0 = sc.depth
          /\ faults_left = sc.faults
          /\ search = [pc |-> sc.search, attempt |-> 0, retry_delay |-> 5,
                       remaining |-> 0, double |-> FALSE, hist |-> <<>>,
                       waits |-> <<>>]
    /\ crawl = "idle"
    /\ tasks = <<>>
    /\ visited_papers = {}
    /\ rate_limit = max_concurrent
    /\ waiters = <<>>
    /\ last_request_age = request_interval
    /\ min_gap = request_interval
    /\ files = [f \in {} |-> ""]
    /\ papers_metadata = <<>>

Init == Start(Scenarios)

Tasks == 1..Len(tasks)
Fixed == UNCHANGED <<papers, depth0>>
Fault == faults_left > 0 /\ faults_left' = faults_left - 1

\* fetch_connected_papers up to the first suspension of process_paper
FetchConnectedPapers ==
    /\ crawl = "idle"
    /\ search.pc \in {"off", "found"}
    /\ crawl' = "running"
    /\ Commit(process_paper(World, "R", depth0, 0))
    /\ UNCHANGED <<faults_left, papers_metadata>> /\ Fixed

\* a queued task got its slot and enters the loop
AcquireResume(t) ==
    /\ tasks[t].pc = "acquired"
    /\ Commit(wait_for_rate_limit(World, t))
    /\ UNCHANGED <<crawl, faults_left, papers_metadata>> /\ Fixed

\* the sleep of wait_for_rate_limit is over: line 35, then the GET
RateLimitWake(t) ==
    /\ tasks[t].pc = "rl_sleep"
    /\ tasks[t].remaining = 0
    /\ Commit(SendRequest(World, t))
    /\ UNCHANGED <<crawl, faults_left, papers_metadata>> /\ Fixed

Heard(t, r) == [World EXCEPT !.tasks[t].hist = Append(@, r)]

\* lines 172-175
Fetch200(t) ==
    /\ tasks[t].pc = "request"
    /\ Commit(ReturnFromFetch(Heard(t, "200"), t, TRUE))
    /\ UNCHANGED <<crawl, faults_left, papers_metadata>> /\ Fixed

\* lines 176-180
Fetch429(t) ==
    /\ tasks[t].pc = "request"
    /\ Fault
    /\ Commit([Heard(t, "429") EXCEPT
                  !.tasks[t].pc = "backoff",
                  !.tasks[t].remaining = 5 * (tasks[t].attempt + 1)])
    /\ UNCHANGED <<crawl, papers_metadata>> /\ Fixed

\* faulty variant: any status other than 200 is retried like a 429
FetchOtherStatus_Retry(t) ==
    /\ tasks[t].pc = "request"
    /\ Fault
    /\ Commit([Heard(t, "other") EXCEPT
                  !.tasks[t].pc = "backoff",
                  !.tasks[t].remaining = 5 * (tasks[t].attempt + 1)])
    /\ UNCHANGED <<crawl, papers_metadata>> /\ Fixed

\* lines 181-183
FetchOtherStatus(t) ==
    /\ tasks[t].pc = "request"
    /\ Fault
    /\ Commit(ReturnFromFetch(Heard(t, "other"), t, FALSE))
    /\ UNCHANGED <<crawl, papers_metadata>> /\ Fixed

\* lines 184-189: the GET or response.json() raised
FetchError(t) ==
    /\ tasks[t].pc = "request"
    /\ Fault
    /\ Commit(IF tasks[t].attempt < default_retries - 1
              THEN [Heard(t, "error") EXCEPT !.tasks[t].pc = "backoff",
                                             !.tasks[t].remaining = 1]
              ELSE ReturnFromFetch(Heard(t, "error"), t, FALSE))
    /\ UNCHANGED <<crawl, papers_metadata>> /\ Fixed

\* continue: the next pass of the loop
BackoffWake(t) ==
    /\ tasks[t].pc = "backoff"
    /\ tasks[t].remaining = 0
    /\ Commit(FetchAttempt([World EXCEPT !.tasks[t].attempt = @ + 1], t))
    /\ UNCHANGED <<crawl, faults_left, papers_metadata>> /\ Fixed

\* one second passes; a sleeper whose time is up wakes first
Sleeping(t) == tasks[t].pc \in {"rl_sleep", "backoff"}
SearchSleeping == search.pc \in {"rl_sleep", "backoff"}
Tick ==
    /\ \A t \in Tasks : Sleeping(t) => tasks[t].remaining > 0
    /\ SearchSleeping => search.remaining > 0
    /\ \/ last_request_age < request_interval
       \/ \E t \in Tasks : Sleeping(t)
       \/ SearchSleeping
    /\ search' = IF SearchSleeping THEN [search EXCEPT !.remaining = @ - 1]
                 ELSE search
    /\ last_request_age' = Min(last_request_age + 1, request_interval)
    /\ tasks' = [t \in Tasks |->
                    IF Sleeping(t) THEN [tasks[t] EXCEPT !.remaining = @ - 1]
                    ELSE tasks[t]]
    /\ UNCHANGED <<crawl, visited_papers, rate_limit, waiters, min_gap, files,
                   faults_left, papers_metadata>> /\ Fixed

\* ---- search_papers
SearchHeard(r) == [World EXCEPT !.search.hist = Append(@, r)]
max_retries == 3

\* main() with --search: search_papers up to its first suspension
SearchPapers ==
    /\ search.pc = "idle"
    /\ Commit(SearchAttempt(World))
    /\ UNCHANGED <<crawl, faults_left, papers_metadata>> /\ Fixed

\* lines 255-257; an empty list makes main() stop
Search200 ==
    /\ search.pc = "request"
    /\ \E result \in {"found", "empty"} :
          Commit(SearchReturn(SearchHeard("200"), result))
    /\ UNCHANGED <<crawl, faults_left, papers_metadata>> /\ Fixed

\* lines 258-265
Search429 ==
    /\ search.pc = "request"
    /\ Fault
    /\ Commit(IF search.attempt < max_retries - 1
              THEN SearchBackoff(SearchHeard("429"), TRUE)
              ELSE SearchReturn(SearchHeard("429"), "empty"))
    /\ UNCHANGED <<crawl, papers_metadata>> /\ Fixed

\* lines 264-265
SearchOtherStatus ==
    /\ search.pc = "request"
    /\ Fault
    /\ Commit(SearchReturn(SearchHeard("other"), "empty"))
    /\ UNCHANGED <<crawl, papers_metadata>> /\ Fixed

\* lines 266-271
SearchError ==
    /\ search.pc = "request"
    /\ Fault
    /\ Commit(IF search.attempt < max_retries - 1
              THEN SearchBackoff(SearchHeard("error"), FALSE)
              ELSE SearchReturn(SearchHeard("error"), "empty"))
    /\ UNCHANGED <<crawl, papers_metadata>> /\ Fixed

\* search_papers resumes: with its slot after waiting for it, after the
\* sleep of wait_for_rate_limit, or after the sleep of a retry (line 262
\* after a 429; continue leaves async with and the next pass acquires anew)
SearchWake ==
    /\ \/ search.pc = "acquired"
       \/ SearchSleeping /\ search.remaining = 0
    /\ Commit(CASE search.pc = "acquired" -> SearchWaitForRateLimit(World)
                [] search.pc = "rl_sleep" -> SearchSend(World)
                [] search.pc = "backoff" ->
                     SearchAttempt(Release(
                         [World EXCEPT
                            !.search.retry_delay = IF search.double THEN 2 * @ ELSE @,
                            !.search.attempt = @ + 1])))
    /\ UNCHANGED <<crawl, faults_left, papers_metadata>> /\ Fixed

\* ---- resolver probes.  An exception in any of them leaves the function
\* through the except clause of line 106.
ArxivFound(t) ==
    /\ tasks[t].pc = "arxiv"
    /\ Commit(ResolverReturn(World, t, "arxiv"))
    /\ UNCHANGED <<crawl, faults_left, papers_metadata>> /\ Fixed

ArxivNotFound(t) ==
    /\ tasks[t].pc = "arxiv"
    /\ Commit(UnpaywallStep(World, t))
    /\ UNCHANGED <<crawl, faults_left, papers_metadata>> /\ Fixed

UnpaywallFound(t) ==
    /\ tasks[t].pc = "unpaywall"
    /\ Commit(ResolverReturn(World, t, "unpaywall"))
    /\ UNCHANGED <<crawl, faults_left, papers_metadata>> /\ Fixed

\* status other than 200, or no url_for_pdf in the answer
UnpaywallNotFound(t) ==
    /\ tasks[t].pc = "unpaywall"
    /\ Commit(CoreStep(World, t))
    /\ UNCHANGED <<crawl, faults_left, papers_metadata>> /\ Fixed

CoreFound(t) ==
    /\ tasks[t].pc = "core"
    /\ Commit(ResolverReturn(World, t, "core"))
    /\ UNCHANGED <<crawl, faults_left, papers_metadata>> /\ Fixed

CoreNotFound(t) ==
    /\ tasks[t].pc = "core"
    /\ Commit(ResolverReturn(World, t, None))
    /\ UNCHANGED <<crawl, faults_left, papers_metadata>> /\ Fixed

\* network error, timeout, or an answer of another shape (json() raises,
\* best_oa_location is null, results[0] is not an object)
ProbeError(t) ==
    /\ tasks[t].pc \in {"arxiv", "unpaywall", "core"}
    /\ Fault
    /\ Commit(ResolverReturn([World EXCEPT !.tasks[t].probes = Append(@, "raised")],
                             t, None))
    /\ UNCHANGED <<crawl, papers_metadata>> /\ Fixed

\* ---- the download proper
\* lines 134-148: status 200, the name is chosen, aiofiles.open is awaited
Download200(t) ==
    /\ tasks[t].pc = "dl_get"
    /\ LET pid == tasks[t].paper_id
           filename == extract_filename_from_response(pid, papers[pid])
       IN Commit([World EXCEPT !.tasks[t].pc = "dl_open",
                               !.tasks[t].filepath = FreePath(files, filename, 0)])
    /\ UNCHANGED <<crawl, faults_left, papers_metadata>> /\ Fixed

\* lines 155-160: another status, or the GET raised
DownloadFailed(t) ==
    /\ tasks[t].pc = "dl_get"
    /\ Fault
    /\ Commit(AfterDownload(World, t, FALSE))
    /\ UNCHANGED <<crawl, papers_metadata>> /\ Fixed

\* open(filepath, 'wb') creates or truncates the file
FileOpened(t) ==
    /\ tasks[t].pc = "dl_open"
    /\ Commit([World EXCEPT !.tasks[t].pc = "dl_write",
                            !.files = (tasks[t].filepath :> "") @@ @])
    /\ UNCHANGED <<crawl, faults_left, papers_metadata>> /\ Fixed

\* lines 149-154: the bytes are written, the name goes into paper_data
FileWritten(t) ==
    /\ tasks[t].pc = "dl_write"
    /\ Commit(AfterDownload(
           [World EXCEPT !.files = (tasks[t].filepath :> tasks[t].paper_id) @@ @,
                         !.tasks[t].saved_filename = tasks[t].filepath],
           t, TRUE))
    /\ UNCHANGED <<crawl, faults_left, papers_metadata>> /\ Fixed

\* faulty variant: the exception leaves download_pdf and process_paper
WriteError_Propagates(t) ==
    /\ tasks[t].pc \in {"dl_open", "dl_write"}
    /\ Fault
    /\ Commit([World EXCEPT !.tasks[t].pc = "raised"])
    /\ UNCHANGED <<crawl, papers_metadata>> /\ Fixed

\* open, response.read() or write raised: line 157
WriteError(t) ==
    /\ tasks[t].pc \in {"dl_open", "dl_write"}
    /\ Fault
    /\ Commit(AfterDownload(World, t, FALSE))
    /\ UNCHANGED <<crawl, papers_metadata>> /\ Fixed

\* ---- fan-in
RECURSIVE Flatten(_)
Flatten(seqs) == IF seqs = <<>> THEN <<>> ELSE Head(seqs) \o Flatten(Tail(seqs))

\* the children of t in the order they were passed to gather
ChildSeq(t) ==
    LET idx == [c \in Tasks |-> c]
    IN SelectSeq(idx, LAMBDA c : tasks[c].parent = t)

\* faulty variant: the parent goes on as soon as one child has returned
GatherDone_Early(t) ==
    /\ tasks[t].pc = "gather"
    /\ \E c \in Children(World, t) : Finished(World, c)
    /\ LET kids == ChildSeq(t)
           child_results == [i \in 1..Len(kids) |-> tasks[kids[i]].results]
       IN Commit([World EXCEPT !.tasks[t].pc = "done",
                               !.tasks[t].results = @ \o Flatten(child_results)])
    /\ UNCHANGED <<crawl, faults_left, papers_metadata>> /\ Fixed

\* faulty variant: the children's results are taken last child first
GatherDone_Reversed(t) ==
    /\ tasks[t].pc = "gather"
    /\ \A c \in Children(World, t) : Finished(World, c)
    /\ LET kids == ChildSeq(t)
           n == Len(kids)
           child_results == [i \in 1..n |-> tasks[kids[n + 1 - i]].results]
       IN Commit([World EXCEPT !.tasks[t].pc = "done",
                               !.tasks[t].results = @ \o Flatten(child_results)])
    /\ UNCHANGED <<crawl, faults_left, papers_metadata>> /\ Fixed

\* lines 232-236
GatherDone(t) ==
    /\ tasks[t].pc = "gather"
    /\ \A c \in Children(World, t) : Finished(World, c)
    /\ LET kids == ChildSeq(t)
           child_results == [i \in 1..Len(kids) |-> tasks[kids[i]].results]
       IN Commit([World EXCEPT !.tasks[t].pc = "done",
                               !.tasks[t].results = @ \o Flatten(child_results)])
    /\ UNCHANGED <<crawl, faults_left, papers_metadata>> /\ Fixed

\* lines 282-297: process_paper returned, the list is dumped
CrawlReturn ==
    /\ crawl = "running"
    /\ Finished(World, 1)
    /\ crawl' = "returned"
    /\ papers_metadata' = tasks[1].results
    /\ UNCHANGED <<tasks, visited_papers, rate_limit, waiters, last_request_age,
                   min_gap, files, faults_left, search>> /\ Fixed

Next ==
    \/ FetchConnectedPapers
    \/ Tick
    \/ CrawlReturn
    \/ SearchPapers
    \/ Search200
    \/ Search429
    \/ SearchOtherStatus
    \/ SearchError
    \/ SearchWake
    \/ \E t \in Tasks : AcquireResume(t)
    \/ \E t \in Tasks : RateLimitWake(t)
    \/ \E t \in Tasks : Fetch200(t)
    \/ \E t \in Tasks : Fetch429(t)
    \/ \E t \in Tasks : FetchOtherStatus(t)
    \/ \E t \in Tasks : FetchError(t)
    \/ \E t \in Tasks : BackoffWake(t)
    \/ \E t \in Tasks : ArxivFound(t)
    \/ \E t \in Tasks : ArxivNotFound(t)
    \/ \E t \in Tasks : UnpaywallFound(t)
    \/ \E t \in Tasks : UnpaywallNotFound(t)
    \/ \E t \in Tasks : CoreFound(t)
    \/ \E t \in Tasks : CoreNotFound(t)
    \/ \E t \in Tasks : ProbeError(t)
    \/ \E t \in Tasks : Download200(t)
    \/ \E t \in Tasks : DownloadFailed(t)
    \/ \E t \in Tasks : FileOpened(t)
    \/ \E t \in Tasks : FileWritten(t)
    \/ \E t \in Tasks : WriteError(t)
    \/ \E t \in Tasks : GatherDone(t)

Spec == Init /\ [][Next]_vars

\* The event loop runs every callback that is ready, and every request is
\* answered or fails: a step that can be taken is eventually taken.
FairInit == Start(LiveScenarios)
FairSpec == FairInit /\ [][Next]_vars /\ WF_vars(Next)

\* ================================================================= claims
Last(s) == s[Len(s)]
Has(s, x) == \E i \in 1..Len(s) : s[i] = x

Ids(p) == {c \in {p.references[i] : i \in DOMAIN p.references}
                 \cup {p.citations[i] : i \in DOMAIN p.citations} : c # None}

\* the papers within n reference/citation edges of the root
RECURSIVE Within(_)
Within(n) ==
    IF n < 0 THEN {}
    ELSE IF n = 0 THEN {"R"}
    ELSE LET near == Within(n - 1)
         IN near \cup UNION {Ids(papers[x]) : x \in near}

FetchStarted(t) == tasks[t].fetched # "no"
DownloadStarted(t) == tasks[t].downloaded # "no"

\* C1: no paper id has its metadata fetch started by two invocations of
\* process_paper, nor its download, and a fetch is started only for an id
\* already in visited_papers.
C1_AtMostOnce ==
    /\ \A a, b \in Tasks :
          (a # b /\ tasks[a].paper_id = tasks[b].paper_id)
              => /\ ~(FetchStarted(a) /\ FetchStarted(b))
                 /\ ~(DownloadStarted(a) /\ DownloadStarted(b))
    /\ \A t \in Tasks : FetchStarted(t) => tasks[t].paper_id \in visited_papers

\* an id reached a second time within the depth bound, after its first
\* invocation had fetched and downloaded
C1_Witness ==
    \E a, b \in Tasks :
        /\ a # b /\ tasks[a].paper_id = tasks[b].paper_id
        /\ tasks[a].downloaded = "ok"
        /\ tasks[b].pc = "skip" /\ tasks[b].depth >= 0

\* C2: when a crawl in which every metadata fetch succeeded returns, every
\* paper within depth0 edges of the root has been marked visited and fetched.
C2_AllWithinDepth ==
    (crawl = "returned" /\ \A t \in Tasks : tasks[t].fetched # "None")
        => \A id \in Within(depth0) :
              /\ id \in visited_papers
              /\ \E t \in Tasks : tasks[t].paper_id = id /\ tasks[t].fetched = "data"

\* C3: nothing farther than depth0 edges from the root is ever marked,
\* fetched or downloaded; with depth0 = 0 that is the root alone, with a
\* negative depth0 nothing at all and process_paper returns [].
C3_DepthBound ==
    /\ visited_papers \subseteq Within(depth0)
    /\ \A t \in Tasks :
          (FetchStarted(t) \/ DownloadStarted(t))
              => tasks[t].paper_id \in Within(depth0)
    /\ depth0 = 0 => visited_papers \subseteq {"R"}
    /\ depth0 < 0 => /\ visited_papers = {}
                     /\ \A t \in Tasks : tasks[t].pc = "skip" /\ tasks[t].results = <<>>

\* a depth-0 crawl that has returned: the root was processed, its children
\* were handed to process_paper and none was marked
C3_Witness ==
    /\ depth0 = 0
    /\ crawl = "returned"
    /\ Len(tasks) > 1
    /\ visited_papers = {"R"}
    /\ tasks[1].fetched = "data"

InFlight == {t \in Tasks : tasks[t].pc = "request"}

\* C4: at most max_concurrent metadata requests are in flight.
C4_MaxConcurrent == Cardinality(InFlight) <= max_concurrent

\* three requests in flight while a fourth caller waits for a slot
C4_Witness ==
    /\ Cardinality(InFlight) = max_concurrent
    /\ waiters # <<>>

\* C5: two requests never start less than request_interval apart.
C5_MinInterval == min_gap >= request_interval

\* C6: two successful downloads never end in the same file.
C6_DistinctFiles ==
    \A a, b \in Tasks :
        (a # b /\ tasks[a].downloaded = "ok" /\ tasks[b].downloaded = "ok")
            => tasks[a].saved_filename # tasks[b].saved_filename

\* C7: a provider that raises counts as "no answer": the resolver gives up
\* on a paper that has a DOI only after CORE, the last provider, was asked.
C7_ChainContinues ==
    \A t \in Tasks :
        (tasks[t].downloaded = "failed" /\ tasks[t].pdf_url = None
            /\ papers[tasks[t].paper_id].DOI
            /\ papers[tasks[t].paper_id].openAccessPdf # "url")
            => Has(tasks[t].probes, "core")

Three429 == <<"429", "429", "429">>

\* C8 as stated: after 429, 429, 429 the fetch goes on to a fourth request,
\* so it does not end NotFound there.
C8_FourthAttempt ==
    \A t \in Tasks : tasks[t].hist = Three429 => tasks[t].fetched # "None"

\* C8 as amended: the third request is the last one.  After 429, 429, 429
\* and the last backoff the fetch returns NotFound; 429, 429, 200 returns
\* the metadata.
C8_ThreeAttempts ==
    \A t \in Tasks :
        /\ Len(tasks[t].hist) <= default_retries
        /\ (tasks[t].hist = Three429 /\ tasks[t].pc # "backoff")
              => tasks[t].fetched = "None"
        /\ tasks[t].hist = <<"429", "429", "200">> => tasks[t].fetched = "data"

C8_Witness ==
    \E t \in Tasks : tasks[t].hist = Three429 /\ tasks[t].fetched = "None"

\* C9: fetch_paper_details issues at most default_retries requests and ends
\* with the metadata or with None: None right after a status other than 200
\* and 429, None after the last attempt failed or was answered 429, the
\* metadata after a 200, and while it runs it has not returned.
C9_FetchTotal ==
    \A t \in Tasks :
        LET h == tasks[t].hist
            last == Last(h)
        IN /\ Len(h) <= default_retries
           /\ tasks[t].pc \in {"acquire", "acquired", "rl_sleep", "request", "backoff"}
                 <=> tasks[t].fetched = "started"
           /\ h # <<>> =>
                /\ last = "200" <=> tasks[t].fetched = "data"
                /\ last = "other" => tasks[t].fetched = "None"
                /\ (Len(h) = default_retries /\ last = "error")
                      => tasks[t].fetched = "None"
                /\ (Len(h) = default_retries /\ last = "429" /\ tasks[t].pc # "backoff")
                      => tasks[t].fetched = "None"
                /\ (Len(h) < default_retries /\ last \in {"429", "error"})
                      => tasks[t].fetched = "started"

\* persistent transport failure, exhausted
C9_Witness ==
    \E t \in Tasks :
        tasks[t].hist = <<"error", "error", "error">> /\ tasks[t].fetched = "None"

\* C10: a paper whose openAccessPdf has a url is downloaded from that url
\* and no provider is probed for it.
C10_OpenAccessFirst ==
    \A t \in Tasks :
        (papers[tasks[t].paper_id].openAccessPdf = "url" /\ DownloadStarted(t))
            => tasks[t].probes = <<>> /\ tasks[t].pdf_url = "openAccessPdf"

\* such a paper that also has an ArXiv id and a DOI, its PDF GET in flight
C10_Witness ==
    \E t \in Tasks :
        LET p == papers[tasks[t].paper_id]
        IN /\ p.openAccessPdf = "url" /\ p.ArXiv /\ p.DOI
           /\ tasks[t].pc = "dl_get"

\* ---------------------------------------------------------------- C11-C20
TaskPcs == {"skip", "acquire", "acquired", "rl_sleep", "request", "backoff",
            "arxiv", "unpaywall", "core", "dl_get", "dl_open", "dl_write",
            "gather", "done"}

AllFinished == \A t \in Tasks : Finished(World, t)

\* a 429, a transport failure, a non-retryable status, no source, or a
\* failed write or download happened at task t
HasFailure(t) ==
    \/ \E i \in 1..Len(tasks[t].hist) : tasks[t].hist[i] # "200"
    \/ Has(tasks[t].probes, "raised")
    \/ tasks[t].downloaded = "failed"

\* C11: no invocation of process_paper ever ends by raising, and once a
\* failure has happened at some node the crawl still returns its list with
\* every task run to its end.
C11_Contained ==
    /\ [](\A t \in Tasks : tasks[t].pc \in TaskPcs)
    /\ (\E t \in Tasks : HasFailure(t))
          ~> (crawl = "returned" /\ AllFinished)

\* the fetch of one child ended in None, a sibling downloaded its PDF, and
\* the crawl returned
C11_Witness ==
    /\ crawl = "returned"
    /\ \E a, b \in Tasks :
          /\ tasks[a].parent = tasks[b].parent
          /\ tasks[a].fetched = "None"
          /\ tasks[b].downloaded = "ok"

ChildIds(t) == [i \in 1..Len(ChildSeq(t)) |-> tasks[ChildSeq(t)[i]].paper_id]
ListedIds(t) ==
    SelectSeq(connected_papers(papers[tasks[t].paper_id]), LAMBDA c : c # None)
RecordIds(recs) == {recs[i].id : i \in 1..Len(recs)}

\* C12: a node whose download failed has no record anywhere, and every id of
\* its references and citations was handed to process_paper with depth - 1,
\* as for a node whose download succeeded.
C12_FailedDownloadFansOut ==
    \A t \in Tasks :
        /\ tasks[t].downloaded = "failed"
              => \A u \in Tasks : tasks[t].paper_id \notin RecordIds(tasks[u].results)
        /\ tasks[t].downloaded \in {"failed", "ok"}
              => /\ ChildIds(t) = ListedIds(t)
                 /\ \A c \in Children(World, t) : tasks[c].depth = tasks[t].depth - 1

\* a node with remaining depth > 0 whose download failed and whose child got
\* its metadata
C12_Witness ==
    \E t, c \in Tasks :
        /\ tasks[t].downloaded = "failed" /\ tasks[t].depth > 0
        /\ tasks[c].parent = t /\ tasks[c].fetched = "data"

Index(recs, id) == CHOOSE i \in 1..Len(recs) : recs[i].id = id

\* x and y are children of p, both returned records, and y, listed after x,
\* returned before x
Overtook(p, x, y) ==
    /\ tasks[p].pc = "done"
    /\ tasks[x].parent = p
    /\ y \in tasks[x].overtaken_by
    /\ tasks[x].results # <<>>

\* C13 as stated: a child that returned earlier has its records earlier in
\* the parent's list.
C13_CompletionOrder ==
    \A p, x, y \in Tasks :
        Overtook(p, x, y)
            => Index(tasks[p].results, tasks[y].paper_id)
                  < Index(tasks[p].results, tasks[x].paper_id)

OwnRecords(t) ==
    IF tasks[t].downloaded = "ok"
    THEN <<[id |-> tasks[t].paper_id, filename |-> tasks[t].saved_filename]>>
    ELSE <<>>

\* C13 as amended: the list is the node's own record followed by the lists
\* of its children in the order of references then citations, also when a
\* child listed later returned first.
C13_ListOrder ==
    /\ \A p \in Tasks :
          tasks[p].pc = "done"
              => tasks[p].results =
                    OwnRecords(p) \o
                    Flatten([i \in 1..Len(ChildSeq(p)) |->
                                tasks[ChildSeq(p)[i]].results])
    /\ \A p, x, y \in Tasks :
          Overtook(p, x, y)
              => Index(tasks[p].results, tasks[x].paper_id)
                    < Index(tasks[p].results, tasks[y].paper_id)

C13_Witness == \E p, x, y \in Tasks : Overtook(p, x, y)

Count(recs, id) == Cardinality({i \in 1..Len(recs) : recs[i].id = id})

\* C14: the returned list, which is what papers_metadata.json holds, has one
\* record for each id whose download succeeded and none for any other id,
\* and each record names the path its download opened and wrote.
C14_OneRecordPerDownload ==
    crawl = "returned" =>
        /\ papers_metadata = tasks[1].results
        /\ \A id \in DOMAIN papers :
              Count(papers_metadata, id) =
                 IF \E t \in Tasks : tasks[t].paper_id = id /\ tasks[t].downloaded = "ok"
                 THEN 1 ELSE 0
        /\ \A i \in 1..Len(papers_metadata) :
              \E t \in Tasks :
                 /\ tasks[t].paper_id = papers_metadata[i].id
                 /\ tasks[t].downloaded = "ok"
                 /\ tasks[t].filepath = papers_metadata[i].filename
                 /\ papers_metadata[i].filename \in DOMAIN files

\* scenario A: depth 0, the root's openAccessPdf url answered 200
C14_Witness ==
    /\ crawl = "returned"
    /\ depth0 = 0
    /\ tasks[1].pdf_url = "openAccessPdf"
    /\ Len(papers_metadata) = 1

\* --------------------------------------------------------------- C15
SearchPcs == {"off", "idle", "acquire", "acquired", "rl_sleep", "request",
              "backoff", "found", "empty"}
SearchReturned == search.pc \in {"found", "empty"}

\* the number of 429 answers among the first n answers
Earlier429(n) == Cardinality({i \in 1..n : search.hist[i] = "429"})

\* the answers and the waits of search_papers fit its loop: at most
\* max_retries requests, a retry only after a 429 or a transport failure,
\* one wait before each retry and none before a return
SearchShape ==
    /\ search.pc \in SearchPcs
    /\ Len(search.hist) <= max_retries
    /\ \A i \in 1..Len(search.hist) - 1 : search.hist[i] \in {"429", "error"}
    /\ Len(search.waits) \in {Len(search.hist), Len(search.hist) - 1}
    /\ SearchReturned => Len(search.waits) = Len(search.hist) - 1
    /\ Len(search.hist) = max_retries => SearchReturned
    /\ search.pc = "found" => Last(search.hist) = "200"
    /\ (search.hist # <<>> /\ Last(search.hist) \in {"200", "other"})
          => SearchReturned

\* C15 as stated: search_papers never raises, returns the list of a 200 or
\* an empty list after at most 3 requests, waits 1 second after a transport
\* failure and 5 seconds doubled by each earlier 429 after a 429.
C15_FixedOneSecond ==
    /\ SearchShape
    /\ \A i \in 1..Len(search.waits) :
          search.waits[i] = IF search.hist[i] = "429"
                            THEN 5 * 2^Earlier429(i - 1)
                            ELSE 1

\* C15 as amended: the wait after a transport failure is the current delay
\* too, 5 seconds doubled by each earlier 429.
C15_SearchRetry ==
    /\ SearchShape
    /\ \A i \in 1..Len(search.waits) :
          search.waits[i] = 5 * 2^Earlier429(i - 1)

\* 429, then a transport failure, then 200: the waits were 5 and 10 seconds
C15_Witness ==
    /\ search.pc = "found"
    /\ search.hist = <<"429", "error", "200">>
    /\ search.waits = <<5, 10>>

\* --------------------------------------------------------------- C16
ProbePcs == {"arxiv", "unpaywall", "core"}
DownloadPcs == {"dl_get", "dl_open", "dl_write"}
Probing == {t \in Tasks : tasks[t].pc \in ProbePcs}
Downloading == {t \in Tasks : tasks[t].pc \in DownloadPcs}
FetchPcs == {"acquire", "acquired", "rl_sleep", "request", "backoff"}
Fetching == {t \in Tasks : tasks[t].pc \in FetchPcs}
SearchRunning == search.pc \in {"acquire", "acquired", "rl_sleep", "request", "backoff"}

\* C16: a task that probes a provider or downloads a PDF neither waits for
\* a slot of the limiter nor holds one: when only probes and downloads are
\* under way every slot is free, however many of them there are.
C16_DownloadsUnlimited ==
    /\ \A t \in Probing \cup Downloading : ~Has(waiters, t)
    /\ (Fetching = {} /\ ~SearchRunning) => rate_limit = max_concurrent

\* more downloads in flight at once than the limiter has slots
C16_Witness == Cardinality({t \in Tasks : tasks[t].pc = "dl_get"}) > max_concurrent

\* --------------------------------------------------------------- C17
\* C17: at every node the id is marked before its fetch, the fetch has
\* returned metadata before the download starts, the download has ended
\* before any child exists, and the node returns only after all its
\* children, with their records in its list; so when the crawl returns no
\* task is still running and every record of every task is in the list.
C17_NodeOrder ==
    /\ \A t \in Tasks :
          /\ FetchStarted(t) => tasks[t].paper_id \in visited_papers
          /\ DownloadStarted(t) => tasks[t].fetched = "data"
          /\ tasks[t].pc \in ProbePcs \cup DownloadPcs
                => tasks[t].downloaded = "started"
          /\ Children(World, t) # {}
                => /\ tasks[t].downloaded \in {"ok", "failed"}
                   /\ tasks[t].pc \in {"gather", "done"}
          /\ tasks[t].pc = "done"
                => \A c \in Children(World, t) :
                      /\ Finished(World, c)
                      /\ RecordIds(tasks[c].results) \subseteq RecordIds(tasks[t].results)
    /\ crawl = "returned"
          => /\ AllFinished
             /\ \A t \in Tasks :
                   RecordIds(tasks[t].results) \subseteq RecordIds(papers_metadata)

\* the crawl returned a list that holds the record of a child of the root
\* that had children of its own
C17_Witness ==
    /\ crawl = "returned"
    /\ \E c \in Tasks :
          /\ tasks[c].parent = 1
          /\ tasks[c].downloaded = "ok"
          /\ Children(World, c) # {}
          /\ tasks[c].paper_id \in RecordIds(papers_metadata)

\* --------------------------------------------------------------- C18
Rank(provider) ==
    CASE provider = "arxiv" -> 1
      [] provider = "unpaywall" -> 2
      [] provider = "core" -> 3

\* the providers task t has asked, in the order it asked them
Asked(t) == SelectSeq(tasks[t].probes, LAMBDA x : x # "raised")

\* the providers the metadata of a paper allows to ask
Applicable(p) ==
    (IF p.ArXiv THEN <<"arxiv">> ELSE <<>>)
        \o (IF p.DOI THEN <<"unpaywall", "core">> ELSE <<>>)

ResolverGaveUp(t) ==
    /\ tasks[t].downloaded = "failed"
    /\ tasks[t].pdf_url = None
    /\ ~Has(tasks[t].probes, "raised")

\* C18: the providers are asked in the order arXiv, Unpaywall, CORE, each
\* at most once, arXiv only with an ArXiv id and the other two only with a
\* DOI; the provider whose URL is taken is the last one asked; and the
\* resolver that returns None without an exception has asked exactly the
\* providers the metadata allows, none when there is neither id.
C18_ProviderOrder ==
    \A t \in Tasks :
        LET p == papers[tasks[t].paper_id]
            asked == Asked(t)
        IN /\ \A i, j \in 1..Len(asked) : i < j => Rank(asked[i]) < Rank(asked[j])
           /\ Len(asked) <= Len(Applicable(p))
           /\ \A i \in 1..Len(asked) : asked[i] = Applicable(p)[i]
           /\ tasks[t].pc \in ProbePcs => Last(tasks[t].probes) = tasks[t].pc
           /\ tasks[t].pdf_url \in ProbePcs => Last(tasks[t].probes) = tasks[t].pdf_url
           /\ ResolverGaveUp(t) => asked = Applicable(p)

\* a paper with an ArXiv id and no DOI: arXiv did not have it, Unpaywall and
\* CORE were skipped, and the resolver returned None without an exception
C18_Witness ==
    \E t \in Tasks :
        /\ papers[tasks[t].paper_id].ArXiv
        /\ ~papers[tasks[t].paper_id].DOI
        /\ papers[tasks[t].paper_id].openAccessPdf # "url"
        /\ ResolverGaveUp(t)
        /\ tasks[t].probes = <<"arxiv">>

\* --------------------------------------------------------------- C19
HoldPcs == {"acquired", "rl_sleep", "request", "backoff"}
Holders == {t \in Tasks : tasks[t].pc \in HoldPcs}
SearchHolds == IF search.pc \in HoldPcs THEN 1 ELSE 0

\* C19: the slots taken from the limiter are those of the calls of
\* fetch_paper_details and search_papers that were admitted and have not
\* returned, one each, through every attempt and backoff wait; a call that
\* returned holds none; and a caller waits for a slot only while all of
\* them are taken by such calls.
C19_SlotsHeld ==
    /\ rate_limit \in 0..max_concurrent
    /\ max_concurrent - rate_limit = Cardinality(Holders) + SearchHolds
    /\ \A t \in Tasks :
          /\ Has(waiters, t) <=> tasks[t].pc = "acquire"
          /\ tasks[t].fetched = "started" <=> tasks[t].pc \in FetchPcs
          /\ (tasks[t].fetched = "started" /\ tasks[t].hist # <<>>) => t \in Holders
    /\ Has(waiters, 0) <=> search.pc = "acquire"
    /\ waiters # <<>> => rate_limit = 0

\* a call sleeps out its backoff after a 429 with its slot, while another
\* caller waits for a slot
C19_Witness ==
    /\ waiters # <<>>
    /\ \E t \in Tasks : tasks[t].pc = "backoff" /\ Last(tasks[t].hist) = "429"

\* --------------------------------------------------------------- C20
\* one step only adds to visited_papers, at most one id for each
\* invocation of process_paper it starts, and no invocation disappears
VisitedGrows ==
    /\ visited_papers \subseteq visited_papers'
    /\ Len(tasks') >= Len(tasks)
    /\ Cardinality(visited_papers') - Cardinality(visited_papers)
          <= Len(tasks') - Len(tasks)

\* C20: with every request answered and every runnable task run, a crawl
\* that has started returns, with every invocation of process_paper
\* returned; and visited_papers only grows, by at most one id per invocation.
C20_Terminates ==
    /\ (crawl = "running") ~> (crawl = "returned" /\ AllFinished)
    /\ [][VisitedGrows]_vars

\* a crawl of depth 2 over a graph with a cycle returned: the root was
\* reached again through its child and skipped
C20_Witness ==
    /\ crawl = "returned"
    /\ depth0 = 2
    /\ \E t \in Tasks :
          /\ tasks[t].paper_id = tasks[1].paper_id
          /\ tasks[t].depth = 0
          /\ tasks[t].pc = "skip"
    /\ Cardinality(visited_papers) < Len(tasks)

====
